---- MODULE Spec2Model ----
(***************************************************************************)
(* Resumable run of one (language, task) pair of the VLM rationale driver, *)
(* in its two backends:                                                    *)
(*   direct  src/run_gemini_async.py  run_task_for_language_gemini         *)
(*   batch   src/run_vlm_batch.py     process_task_for_language_batch      *)
(* together with the checkpoint file, the output artifact written by       *)
(* main(), process interruption and restart.                               *)
(*                                                                         *)
(* Strings that the code parses or compares are modelled by what they      *)
(* are: a mapping key is the sequence of decimal digits str(id) produces,  *)
(* and int(key) parses it again.  A mapping (dict / OrderedDict / JSON     *)
(* object) is the sequence of its entries in insertion order.              *)
(*                                                                         *)
(* Environment assumptions: writes of the local file system succeed when   *)
(* the process is not interrupted (the except branches of save_checkpoint  *)
(* and of the artifact write in main() are not taken); an interruption     *)
(* inside save_checkpoint leaves the file truncated or partly written.     *)
(***************************************************************************)
EXTENDS Integers, Sequences, FiniteSets, TLC

-----------------------------------------------------------------------------
(* Bounds of the model.  The configuration values of BASE_CONFIG are       *)
(* scaled down: concurrency 10, retry_attempts 3,                          *)
(* progress_update_frequency 10, batch_size 200, max_retries 3 and         *)
(* max_polls 120 in the source.                                            *)
MaxItems == 3
MaxRuns == 2
MaxFaults == 1
concurrency == 2
retry_attempts == 2
progress_update_frequency == 2
batch_size == 2
max_retries == 1
max_polls == 2

(* The data directory of the loader model holds at most MaxFiles files,    *)
(* and the loaders keep limit images (1000 in the source).                 *)
MaxFiles == 4
limit == 2

(* get_image_id_from_path returns None for a stem without digits. *)
NoId == -1

(* The item IDs of the modelled data directory ("10" sorts before "2" and  *)
(* "9" as a string, after them as a number).                               *)
Ids == {2, 9, 10}

(* Task numbers on both sides of the image-text threshold. *)
Tasks == {5, 6}

-----------------------------------------------------------------------------
(* str(n) for n >= 0: the decimal digits. *)
RECURSIVE str(_)
str(n) == IF n < 10 THEN <<n>> ELSE str(n \div 10) \o <<n % 10>>

(* int(s) for a digit string. *)
RECURSIVE int(_)
int(s) == IF Len(s) = 0 THEN 0
          ELSE 10 * int(SubSeq(s, 1, Len(s) - 1)) + s[Len(s)]

(* The elements of a sequence. *)
Range(s) == {s[j] : j \in 1..Len(s)}

(* Result strings. *)
Text == "text"
ErrParseId == "Error: Could not parse image ID"
ErrEncode == "Error: Image encoding failed"
ErrReadText == "Error: Could not read text file"
ErrNoContent == "Error: No content in response"
ErrAfterAttempts == "Error: After attempts"
ErrMaxRetries == "Error: Max retries reached without success."
ErrNoChoices == "Error: No choices in response."
ErrStatus == "Error: Status, Message"

IsError(v) == v \in {ErrParseId, ErrEncode, ErrReadText, ErrNoContent,
                     ErrAfterAttempts, ErrMaxRetries, ErrNoChoices, ErrStatus}

-----------------------------------------------------------------------------
(* Mappings: sequences of entries [k |-> key, v |-> value], keys unique. *)
Keys(m) == {m[j].k : j \in 1..Len(m)}

KeyList(m) == [j \in 1..Len(m) |-> m[j].k]

HasKey(m, key) == \E j \in 1..Len(m) : m[j].k = key

Get(m, key) == m[CHOOSE j \in 1..Len(m) : m[j].k = key].v

Entries(m) == {m[j] : j \in 1..Len(m)}

(* task_results[key] = value: replaces in place, or appends a new key. *)
Put(m, key, value) ==
    IF HasKey(m, key)
    THEN [j \in 1..Len(m) |-> IF m[j].k = key THEN [k |-> key, v |-> value] ELSE m[j]]
    ELSE Append(m, [k |-> key, v |-> value])

(* Stable insertion of one entry into a list sorted by int(key). *)
RECURSIVE InsertByInt(_, _)
InsertByInt(sorted, e) ==
    IF Len(sorted) = 0 THEN <<e>>
    ELSE IF int(sorted[Len(sorted)].k) <= int(e.k) THEN Append(sorted, e)
    ELSE Append(InsertByInt(SubSeq(sorted, 1, Len(sorted) - 1), e), sorted[Len(sorted)])

(* An artifact that leaves the error strings out. *)
SortedResults_dropping_errors(m) == SelectSeq(m, LAMBDA e : ~IsError(e.v))

(* OrderedDict(sorted(task_results.items(), key=lambda kv: int(kv[0]))) *)
RECURSIVE SortedResults(_)
SortedResults(m) ==
    IF Len(m) = 0 THEN <<>>
    ELSE InsertByInt(SortedResults(SubSeq(m, 1, Len(m) - 1)), m[Len(m)])

(* task_results.update(results): every entry of results, in its order. *)
RECURSIVE Update(_, _)
Update(m, results) ==
    IF Len(results) = 0 THEN m
    ELSE Update(Put(m, results[1].k, results[1].v), Tail(results))

IsSortedByInt(m) == \A j \in 1..(Len(m) - 1) : int(m[j].k) < int(m[j + 1].k)

-----------------------------------------------------------------------------
(* Files. *)
NoFile == [state |-> "absent", data |-> <<>>]
Complete(m) == [state |-> "complete", data |-> m]
Torn == [state |-> "torn", data |-> <<>>]

(* A load_checkpoint that makes up an entry when the file gives none. *)
load_checkpoint_stale(file) ==
    IF file.state = "complete" THEN file.data
    ELSE <<[k |-> str(2), v |-> Text]>>

(* load_checkpoint: the parsed mapping, or {} when the file is missing or   *)
(* does not parse.                                                          *)
load_checkpoint(file) == IF file.state = "complete" THEN file.data ELSE <<>>

(* A save that misses the entry added last. *)
save_checkpoint_behind(results) ==
    Complete(SubSeq(results, 1, Len(results) - 1))

(* save_checkpoint, run to its end: the file holds the whole mapping. *)
save_checkpoint(results) == Complete(results)

-----------------------------------------------------------------------------
(* File paths.  A path is the sequence of its parts. *)

(* LANGUAGE_CONFIGS[language]["code"] *)
code(language) ==
    CASE language = "English" -> "En"
      [] language = "Japanese" -> "Jp"
      [] language = "Swahili" -> "Sw"
      [] language = "Urdu" -> "Ur"

(* A checkpoint file name that leaves the language out. *)
get_checkpoint_filename_without_language(language, task_num) ==
    <<"checkpoint_directory", "checkpoint_task", task_num, "">>

(* get_checkpoint_filename: checkpoint_task{task_num}_{lang_code}.json in  *)
(* the checkpoint directory.                                               *)
get_checkpoint_filename(language, task_num) ==
    <<"checkpoint_directory", "checkpoint_task", task_num, code(language)>>

(* output_filename of main(): results_..._{code}_task{task_num}_... in the *)
(* subdirectory of the language.                                           *)
output_filename(lang, task_num) ==
    <<"output_directory", lang, "results", code(lang), task_num>>

(* The languages and the task numbers main() loops over, in its order:     *)
(* the first two of the four languages, and the task numbers of Tasks.     *)
languages_to_process == <<"English", "Japanese">>

task_numbers == <<5, 6>>

Pairs ==
    {<<languages_to_process[a], task_numbers[b]>> :
        a \in 1..Len(languages_to_process), b \in 1..Len(task_numbers)}

Paths ==
    {get_checkpoint_filename(pair[1], pair[2]) : pair \in Pairs}
        \cup {output_filename(pair[1], pair[2]) : pair \in Pairs}

(* No file at any path. *)
EmptyDisk == [path \in Paths |-> NoFile]

-----------------------------------------------------------------------------
VARIABLES
    mode,           \* "direct" or "batch": which script runs
    task,           \* task_num of the (language, task) pair
    items,          \* the loader's item list for the task: image IDs, NoId for None
    checkpoint,     \* the checkpoint file of the pair
    output,         \* the output artifact of the pair
    pc,             \* "idle", "running", "done", "crashed"
    runNo,          \* number of program invocations started
    task_results,   \* the in-memory result mapping of the run
    flows,          \* direct: one record per coroutine of async_tasks
    done_queue,     \* direct: flows that returned, in completion order (as_completed)
    semaphore,      \* direct: free slots of asyncio.Semaphore(concurrency)
    items_for_batch_prep, \* batch: the unresolved items of the run
    chunk,          \* batch: the loop over chunks and the retry loop of one chunk
    jobs,           \* batch: the job polled and the jobs left open at the provider
    requested,      \* history: IDs of the items sent to the provider in this run
    unreadable,     \* history: IDs of the items whose image or text could not be read in this run
    faults,         \* number of items that met an environment failure so far
    listing,        \* loader: what os.listdir returns for the data directory
    data,           \* loader: the lists the loader returned
    prompt,         \* prompt builder: the item, the task and what was rendered
    language,       \* the language of the (language, task) pair
    disk,           \* main() over several pairs: the file at each path
    loaded,         \* history: what load_checkpoint returned when the run started
    prevRun,        \* history: how the previous invocation ended and its artifact
    crash           \* history: an interruption inside save_checkpoint

envVars == <<mode, task, items, listing, data, prompt, language, disk>>
directVars == <<flows, done_queue, semaphore>>
batchVars == <<items_for_batch_prep, chunk, jobs>>
histVars == <<loaded, prevRun, crash, unreadable>>
runVars == <<pc, runNo, output>>

vars == <<mode, task, items, listing, data, prompt, language, disk, checkpoint, output, pc, runNo, task_results,
          flows, done_queue, semaphore, items_for_batch_prep, chunk, jobs,
          requested, unreadable, faults, loaded, prevRun, crash>>

NoCrash == [inSave |-> FALSE, old |-> <<>>, new |-> <<>>]

NoPrev == [completed |-> FALSE, output |-> NoFile]

NoBatch == [status |-> "None", output_file_id |-> FALSE]

(* No output file, or one that client.files.content cannot fetch. *)
NoOutput == [available |-> FALSE, lines |-> <<>>]

(* The chunk loop before its first iteration. *)
NoChunk ==
    [i |-> 0, at |-> "none", current_id_map |-> <<>>, batch_lines |-> <<>>,
     retries |-> 0, submitted |-> 0, polls |-> 0, retrieves |-> 0,
     completed_batch |-> NoBatch]

-----------------------------------------------------------------------------
(* Item lists.  load_data_items (direct) sorts the images by ID, None      *)
(* last; load_images_and_texts (batch) drops the images without an ID,     *)
(* keeps one image per ID and sorts by ID.  The directories of Init hold   *)
(* one image per ID; those of InitDuplicate hold two images with the same  *)
(* ID, which load_data_items does not deduplicate.                         *)
RECURSIVE SortedLists(_)
SortedLists(n) ==
    IF n = 0 THEN {<<>>}
    ELSE LET shorter == SortedLists(n - 1)
         IN shorter \cup
            {Append(l, x) : l \in {s \in shorter : Len(s) = n - 1},
                            x \in Ids \cup {NoId}}

SortKey(x) == IF x = NoId THEN 1000000 ELSE x

Repeats(l) == Cardinality({j \in 1..(Len(l) - 1) : l[j] = l[j + 1]})

DirectItemLists ==
    {l \in SortedLists(MaxItems) :
        /\ \A j \in 1..(Len(l) - 1) : SortKey(l[j]) <= SortKey(l[j + 1])
        /\ Repeats(l) = 0}

BatchItemLists ==
    {l \in DirectItemLists : \A j \in 1..Len(l) : l[j] # NoId}

is_image_text_task == task >= 6

(* A remaining-items filter that gives a failed item another chance. *)
remaining_items_retrying_errors(its, processed_ids) ==
    SelectSeq(its, LAMBDA x :
        /\ x # NoId
        /\ \/ str(x) \notin processed_ids
           \/ IsError(Get(load_checkpoint(checkpoint), str(x))))

(* A remaining-items filter that forgets the checkpoint. *)
remaining_items_ignoring_checkpoint(its, processed_ids) ==
    SelectSeq(its, LAMBDA x : x # NoId)

(* A remaining-items filter that lets an image without an ID through. *)
remaining_items_keeping_unparsed(its, processed_ids) ==
    SelectSeq(its, LAMBDA x : x = NoId \/ str(x) \notin processed_ids)

(* remaining_items of run_task_for_language_gemini. *)
remaining_items(its, processed_ids) ==
    SelectSeq(its, LAMBDA x : x # NoId /\ str(x) \notin processed_ids)

(* A remaining-items filter that resubmits everything. *)
get_remaining_resubmitting(its, processed_ids) ==
    SelectSeq(its, LAMBDA x : x # NoId)

(* get_remaining_images and get_remaining_image_text_pairs. *)
get_remaining(its, processed_ids) ==
    SelectSeq(its, LAMBDA x : x # NoId /\ str(x) \notin processed_ids)

NewFlow(id) ==
    [id |-> id, st |-> "waiting", attempt |-> 0, requests |-> 0,
     answer |-> "none", result |-> ""]

(* A coroutine whose result the run loop has taken: only its item is kept. *)
Consumed(id) ==
    [id |-> id, st |-> "merged", attempt |-> 0, requests |-> 0,
     answer |-> "none", result |-> ""]

-----------------------------------------------------------------------------
(* The data directory and the item loaders.  A file name is its stem, a    *)
(* sequence of characters in which a word without digits stands as one     *)
(* character, and its extension; all files are in the one data directory,  *)
(* so a path is a file name.                                               *)
Name(stem, ext) == [stem |-> stem, ext |-> ext]

(* find_matching_text_file returned None; an item without text_path. *)
NoText == Name(<<>>, "")

DigitChars == <<"0", "1", "2", "3", "4", "5", "6", "7", "8", "9">>

isdigit(c) == \E d \in 1..10 : DigitChars[d] = c

digit_value(c) == (CHOOSE d \in 1..10 : DigitChars[d] = c) - 1

(* ''.join(filter(str.isdigit, name_part)) *)
digits_of(stem) == SelectSeq(stem, isdigit)

(* int(digits) on the characters, str(image_id_num) back to characters. *)
int_of(chars) == int([j \in 1..Len(chars) |-> digit_value(chars[j])])

chars_of(n) == [j \in 1..Len(str(n)) |-> DigitChars[str(n)[j] + 1]]

(* An ID extraction that stops at the first digit. *)
get_image_id_from_path_first_digit(name) ==
    IF digits_of(name.stem) = <<>> THEN NoId
    ELSE digit_value(digits_of(name.stem)[1])

(* get_image_id_from_path (direct): None for a stem without digits. *)
get_image_id_from_path(name) ==
    IF digits_of(name.stem) = <<>> THEN NoId ELSE int_of(digits_of(name.stem))

(* get_image_id (batch): int('') raises ValueError, which every caller     *)
(* catches to skip the image; NoId stands for the raise.                   *)
get_image_id(name) ==
    IF digits_of(name.stem) = <<>> THEN NoId ELSE int_of(digits_of(name.stem))

(* The first candidate that exists in the directory, or None. *)
first_existing(candidates, directory) ==
    IF \E j \in 1..Len(candidates) : candidates[j] \in directory
    THEN candidates[CHOOSE j \in 1..Len(candidates) :
                       /\ candidates[j] \in directory
                       /\ \A k \in 1..(j - 1) : candidates[k] \notin directory]
    ELSE NoText

(* find_matching_text_file of run_gemini_async.py: the exact stem first,   *)
(* then the names built from the integer ID.                               *)
find_matching_text_file_direct(image, directory) ==
    LET id == get_image_id_from_path(image)
        exact == <<Name(image.stem, "txt"), Name(image.stem, "text")>>
        by_id == IF id = NoId THEN <<>>
                 ELSE <<Name(<<"text">> \o chars_of(id), "txt"),
                        Name(<<"text">> \o chars_of(id), "text"),
                        Name(chars_of(id), "txt"),
                        Name(chars_of(id), "text")>>
    IN first_existing(exact \o by_id, directory)

(* find_matching_text_file of run_vlm_batch.py: None without digits, else  *)
(* the names built from the digit string first, then the exact stem.       *)
find_matching_text_file_batch(image, directory) ==
    LET image_id_str == digits_of(image.stem)
    IN IF image_id_str = <<>> THEN NoText
       ELSE first_existing(<<Name(<<"text">> \o image_id_str, "txt"),
                             Name(<<"text">> \o image_id_str, "text"),
                             Name(image_id_str, "txt"),
                             Name(image_id_str, "text"),
                             Name(image.stem, "txt"),
                             Name(image.stem, "text")>>, directory)

(* f.lower().endswith(...) of the two loaders. *)
is_image_direct(name) == name.ext \in {"png", "jpg", "jpeg", "webp"}

is_image_batch(name) == name.ext \in {"png", "jpg", "jpeg"}

(* sorted(..., key=ID or inf): stable, so equal IDs keep the listing order. *)
RECURSIVE InsertById(_, _)
InsertById(sorted, name) ==
    IF Len(sorted) = 0 THEN <<name>>
    ELSE IF SortKey(get_image_id_from_path(sorted[Len(sorted)]))
              <= SortKey(get_image_id_from_path(name))
    THEN Append(sorted, name)
    ELSE Append(InsertById(SubSeq(sorted, 1, Len(sorted) - 1), name),
                sorted[Len(sorted)])

RECURSIVE SortedById(_)
SortedById(names) ==
    IF Len(names) = 0 THEN <<>>
    ELSE InsertById(SortedById(SubSeq(names, 1, Len(names) - 1)), names[Len(names)])

(* The first n elements: seq[:n]. *)
Slice(seq, n) == SubSeq(seq, 1, IF Len(seq) < n THEN Len(seq) ELSE n)

Item(image, text) == [image_path |-> image, text_path |-> text]

(* The loop that splits the images into pairs and image-only items;        *)
(* texts[j] is what find_matching_text_file gave for images[j].            *)
image_text_of(images, texts) ==
    LET paired == SelectSeq([j \in 1..Len(images) |-> j],
                            LAMBDA j : texts[j] # NoText)
    IN [k \in 1..Len(paired) |-> Item(images[paired[k]], texts[paired[k]])]

image_only_of(images, texts) ==
    LET alone == SelectSeq([j \in 1..Len(images) |-> j],
                           LAMBDA j : texts[j] = NoText)
    IN [k \in 1..Len(alone) |-> Item(images[alone[k]], NoText)]

(* No call of the prompt builder yet. *)
NoPrompt == [item_data |-> Item(NoText, NoText), task_num |-> 0, rendered |-> ""]

NoData ==
    [loaded |-> FALSE, all_images |-> <<>>, image_text |-> <<>>,
     image_only |-> <<>>]

(* load_data_items (direct): the images sorted by ID, cut to limit, then   *)
(* split by find_matching_text_file.                                       *)
load_data_items(all_files) ==
    LET directory == {all_files[j] : j \in 1..Len(all_files)}
        image_paths_found ==
            Slice(SortedById(SelectSeq(all_files, is_image_direct)), limit)
        text_paths ==
            [j \in 1..Len(image_paths_found) |->
                find_matching_text_file_direct(image_paths_found[j], directory)]
    IN [loaded |-> TRUE,
        all_images |-> image_paths_found,
        image_text |-> image_text_of(image_paths_found, text_paths),
        image_only |-> image_only_of(image_paths_found, text_paths)]

(* unique_images_dict: the first image of the listing for each ID, the     *)
(* images without an ID skipped, then sorted(unique_images_dict.keys()).   *)
unique_images(image_files_found) ==
    SortedById(SelectSeq(
        [j \in 1..Len(image_files_found) |->
            IF /\ get_image_id(image_files_found[j]) # NoId
               /\ \A k \in 1..(j - 1) :
                     get_image_id(image_files_found[k])
                         # get_image_id(image_files_found[j])
            THEN image_files_found[j] ELSE NoText],
        LAMBDA n : n # NoText))

(* load_images_and_texts (batch): over limit, each of the three lists is   *)
(* cut to its own first limit elements.                                    *)
load_images_and_texts(all_files) ==
    LET directory == {all_files[j] : j \in 1..Len(all_files)}
        sorted_image_paths == unique_images(SelectSeq(all_files, is_image_batch))
        text_paths ==
            [j \in 1..Len(sorted_image_paths) |->
                find_matching_text_file_batch(sorted_image_paths[j], directory)]
        image_text_pairs == image_text_of(sorted_image_paths, text_paths)
        image_only == image_only_of(sorted_image_paths, text_paths)
    IN IF Len(sorted_image_paths) > limit
       THEN [loaded |-> TRUE,
             all_images |-> Slice(sorted_image_paths, limit),
             image_text |-> Slice(image_text_pairs, limit),
             image_only |-> Slice(image_only, limit)]
       ELSE [loaded |-> TRUE,
             all_images |-> sorted_image_paths,
             image_text |-> image_text_pairs,
             image_only |-> image_only]

(* The files a modelled data directory is made of: images with the IDs 2,  *)
(* 5 (twice, as image5 and image05) and 9, an image without digits, and    *)
(* the six text names find_matching_text_file tries for image5.jpg.        *)
FileNames ==
    {Name(<<"image", "5">>, "jpg"), Name(<<"image", "0", "5">>, "jpg"),
     Name(<<"image", "2">>, "jpg"), Name(<<"image", "9">>, "jpg"),
     Name(<<"cover">>, "jpg"),
     Name(<<"image", "5">>, "txt"), Name(<<"image", "5">>, "text"),
     Name(<<"text", "5">>, "txt"), Name(<<"text", "5">>, "text"),
     Name(<<"5">>, "txt"), Name(<<"5">>, "text")}

(* os.listdir: the files of a directory, each once, in any order. *)
Listings ==
    {l \in UNION {[1..n -> FileNames] : n \in 0..MaxFiles} :
        \A j, k \in 1..Len(l) : l[j] = l[k] => j = k}

(* Before the first invocation: no checkpoint, no artifact. *)
Fresh ==
    /\ checkpoint = NoFile
    /\ output = NoFile
    /\ pc = "idle"
    /\ runNo = 0
    /\ task_results = <<>>
    /\ flows = <<>>
    /\ done_queue = <<>>
    /\ semaphore = concurrency
    /\ items_for_batch_prep = <<>>
    /\ chunk = NoChunk
    /\ jobs = <<>>
    /\ requested = {}
    /\ unreadable = {}
    /\ faults = 0
    /\ loaded = <<>>
    /\ prevRun = NoPrev
    /\ crash = NoCrash

(* One (language, task) pair is followed; its two files are the variables  *)
(* checkpoint and output.                                                  *)
OnePair == language = "English" /\ disk = EmptyDisk

(* The runs start from the item list the loader returned for the task;    *)
(* the directory behind it is left out.                                    *)
Init ==
    /\ mode \in {"direct", "batch"}
    /\ task \in Tasks
    /\ items \in IF mode = "direct" THEN DirectItemLists ELSE BatchItemLists
    /\ listing = <<>>
    /\ data = NoData
    /\ prompt = NoPrompt
    /\ OnePair
    /\ Fresh

(* A data directory in which two images carry the same ID (1.jpg and       *)
(* 1.png): load_data_items keeps both.                                     *)
DuplicateItemLists ==
    {l \in SortedLists(MaxItems + 1) :
        /\ Len(l) = MaxItems + 1
        /\ \A j \in 1..(Len(l) - 1) : SortKey(l[j]) <= SortKey(l[j + 1])
        /\ \A j \in 1..Len(l) : l[j] # NoId
        /\ Repeats(l) = 1}

InitDuplicate ==
    /\ mode = "direct"
    /\ task \in Tasks
    /\ items \in DuplicateItemLists
    /\ listing = <<>>
    /\ data = NoData
    /\ prompt = NoPrompt
    /\ OnePair
    /\ Fresh

(* The start of the program: a data directory, nothing loaded yet. *)
InitLoader ==
    /\ mode \in {"direct", "batch"}
    /\ task \in Tasks
    /\ items = <<>>
    /\ listing \in Listings
    /\ data = NoData
    /\ prompt = NoPrompt
    /\ OnePair
    /\ Fresh

(* items_to_process_info of the task: image_text_items from task 6 on,     *)
(* else image_only_items (direct) or all_images (batch).                   *)
items_to_process_info_of(backend, lists) ==
    IF is_image_text_task THEN lists.image_text
    ELSE IF backend = "direct" THEN lists.image_only
    ELSE [j \in 1..Len(lists.all_images) |-> Item(lists.all_images[j], NoText)]

items_to_process_info(lists) == items_to_process_info_of(mode, lists)

(* main() calls the loader of its backend once, before the loop over the   *)
(* languages and tasks.                                                    *)
Load ==
    /\ ~data.loaded
    /\ pc = "idle" /\ runNo = 0
    /\ data' = IF mode = "direct" THEN load_data_items(listing)
               ELSE load_images_and_texts(listing)
    /\ items' = [j \in 1..Len(items_to_process_info(data')) |->
                    get_image_id_from_path(
                        items_to_process_info(data')[j].image_path)]
    /\ UNCHANGED <<mode, task, listing, prompt, language, disk, checkpoint,
                   output, pc, runNo, task_results, directVars, batchVars,
                   requested, faults, histVars>>

(* The part of process_single_item_gemini that builds prompt_parts, as a   *)
(* function of its arguments: the template is chosen by text_path alone,   *)
(* task_num only picks the task description and the example.               *)
prompt_parts(item_data, task_num, text_content_read) ==
    IF item_data.text_path # NoText
    THEN IF text_content_read THEN "prompt_template_image_text" ELSE ErrReadText
    ELSE "prompt_template_image_only"

(* The direct backend after load_data_items, no prompt built yet. *)
InitPrompt ==
    /\ mode = "direct"
    /\ task \in Tasks
    /\ items = <<>>
    /\ listing \in Listings
    /\ data = load_data_items(listing)
    /\ prompt = NoPrompt
    /\ OnePair
    /\ Fresh

(* process_single_item_gemini called with an item of either list the       *)
(* loader returned and the task number at hand; the text file, if any, can *)
(* be read or not.                                                         *)
BuildPrompt ==
    /\ mode = "direct" /\ data.loaded
    /\ prompt = NoPrompt
    /\ \E item_data \in Range(data.image_text) \cup Range(data.image_only),
          text_content_read \in BOOLEAN :
         /\ get_image_id_from_path(item_data.image_path) # NoId
         /\ prompt' = [item_data |-> item_data, task_num |-> task,
                       rendered |-> prompt_parts(item_data, task,
                                                 text_content_read)]
    /\ UNCHANGED <<mode, task, items, listing, data, language, disk,
                   checkpoint, output, pc, runNo, task_results, directVars,
                   batchVars, requested, faults, histVars>>

(* A program invocation begins: what every run resets. *)
Invocation ==
    /\ pc \in {"idle", "done", "crashed"}
    /\ runNo < MaxRuns
    /\ runNo' = runNo + 1
    /\ prevRun' = [completed |-> pc = "done", output |-> output]
    /\ crash' = NoCrash
    /\ loaded' = load_checkpoint(checkpoint)
    /\ requested' = {}
    /\ unreadable' = {}
    /\ UNCHANGED <<envVars, checkpoint, faults>>

-----------------------------------------------------------------------------
(* Direct mode. *)

(* A program invocation reaches run_task_for_language_gemini: load the     *)
(* checkpoint, compute remaining_items, return at once when none remain    *)
(* (main() then writes the returned mapping), else create the coroutines.  *)
StartDirect ==
    /\ mode = "direct"
    /\ Invocation
    /\ LET checkpoint_data == load_checkpoint(checkpoint)
           remaining == remaining_items(items, Keys(checkpoint_data))
       IN /\ task_results' = checkpoint_data
          /\ flows' = [j \in 1..Len(remaining) |-> NewFlow(remaining[j])]
          /\ IF remaining = <<>>
             THEN /\ pc' = "done"
                  /\ output' = Complete(checkpoint_data)
             ELSE /\ pc' = "running"
                  /\ UNCHANGED output
    /\ done_queue' = <<>>
    /\ semaphore' = concurrency
    /\ UNCHANGED batchVars

(* What the environment may do next: the local reads of an item (image     *)
(* encoding, text file of an image-text item) and the provider's answer to *)
(* a request.  At most MaxFaults items meet a failure; an item whose first *)
(* request failed may fail again on every later attempt.                   *)
LocalOutcomes ==
    {"ok"} \cup (IF faults < MaxFaults
                 THEN {"image"} \cup (IF is_image_text_task THEN {"text"} ELSE {})
                 ELSE {})

ProviderAnswers(attempt) ==
    {"content"} \cup (IF attempt > 0 \/ faults < MaxFaults
                      THEN {"nocontent", "exception"} ELSE {})

(* The coroutine returned: the slot is released and the result is ready    *)
(* for the run loop.                                                       *)
Return(i, value) ==
    /\ flows' = [flows EXCEPT ![i].st = "returned", ![i].result = value]
    /\ done_queue' = Append(done_queue, i)

(* A semaphore that lets every flow in. *)
SlotFree_unbounded == TRUE

(* A semaphore that never has a free slot. *)
SlotFree_closed == FALSE

(* "async with semaphore": a flow enters only when a slot is free. *)
SlotFree == semaphore > 0

(* Entering the "async with semaphore" block takes a slot. *)
semaphore_acquire(value) == value - 1

(* A block that keeps its slot when it is left. *)
semaphore_release_skipped(value) == value

(* Leaving the "async with semaphore" block, by return or by exception,    *)
(* gives the slot back.                                                    *)
semaphore_release(value) == value + 1

(* process_single_item_gemini enters "async with semaphore" and runs to    *)
(* its first await: ID, image encoding, text reading, prompt, and the      *)
(* first model request of generate_gemini_response.  A flow that returns   *)
(* before its first request gives its slot back in the same step.          *)
Acquire(i) ==
    /\ mode = "direct" /\ pc = "running"
    /\ flows[i].st = "waiting"
    /\ SlotFree
    /\ \E io \in LocalOutcomes :
         /\ faults' = IF io = "ok" THEN faults ELSE faults + 1
         /\ unreadable' = IF io = "ok" \/ flows[i].id = NoId THEN unreadable
                          ELSE unreadable \cup {flows[i].id}
         /\ IF flows[i].id = NoId THEN
                 /\ Return(i, ErrParseId)
                 /\ semaphore' = semaphore_release(semaphore_acquire(semaphore))
                 /\ UNCHANGED requested
            ELSE IF io = "image" THEN
                 /\ Return(i, ErrEncode)
                 /\ semaphore' = semaphore_release(semaphore_acquire(semaphore))
                 /\ UNCHANGED requested
            ELSE IF io = "text" THEN
                 /\ Return(i, ErrReadText)
                 /\ semaphore' = semaphore_release(semaphore_acquire(semaphore))
                 /\ UNCHANGED requested
            ELSE /\ flows' = [flows EXCEPT ![i].st = "inflight", ![i].attempt = 0,
                                           ![i].requests = 1]
                 /\ semaphore' = semaphore_acquire(semaphore)
                 /\ requested' = requested \cup {flows[i].id}
                 /\ UNCHANGED done_queue
    /\ UNCHANGED <<envVars, checkpoint, output, pc, runNo, task_results,
                   batchVars, loaded, prevRun, crash>>

(* A retry loop that sleeps and asks again after the last attempt. *)
generate_gemini_response_one_more(answer, attempt) ==
    IF answer = "content" THEN [retry |-> FALSE, value |-> Text]
    ELSE IF answer = "nocontent" THEN [retry |-> FALSE, value |-> ErrNoContent]
    ELSE IF attempt < retry_attempts THEN [retry |-> TRUE, value |-> ""]
    ELSE [retry |-> FALSE, value |-> ErrAfterAttempts]

(* A retry loop that treats an answer without content as a failed attempt. *)
generate_gemini_response_retrying_empty(answer, attempt) ==
    IF answer = "content" THEN [retry |-> FALSE, value |-> Text]
    ELSE IF attempt < retry_attempts - 1 THEN [retry |-> TRUE, value |-> ""]
    ELSE IF answer = "nocontent" THEN [retry |-> FALSE, value |-> ErrNoContent]
    ELSE [retry |-> FALSE, value |-> ErrAfterAttempts]

(* generate_gemini_response after the answer to attempt number attempt:    *)
(* text is returned at once, so is the error string of an answer without   *)
(* content; an exception is retried until attempt retry_attempts - 1 and   *)
(* then gives the terminal error string.                                   *)
generate_gemini_response(answer, attempt) ==
    IF answer = "content" THEN [retry |-> FALSE, value |-> Text]
    ELSE IF answer = "nocontent" THEN [retry |-> FALSE, value |-> ErrNoContent]
    ELSE IF attempt < retry_attempts - 1 THEN [retry |-> TRUE, value |-> ""]
    ELSE [retry |-> FALSE, value |-> ErrAfterAttempts]

(* The answer to the request in flight arrives. *)
Respond(i) ==
    /\ mode = "direct" /\ pc = "running"
    /\ flows[i].st = "inflight"
    /\ \E answer \in ProviderAnswers(flows[i].attempt) :
         /\ faults' = IF answer = "content" \/ flows[i].attempt > 0
                       THEN faults ELSE faults + 1
         /\ LET next == generate_gemini_response(answer, flows[i].attempt)
            IN IF next.retry
               THEN /\ flows' = [flows EXCEPT ![i].st = "backoff",
                                              ![i].answer = answer]
                    /\ UNCHANGED <<done_queue, semaphore>>
               ELSE /\ flows' = [flows EXCEPT ![i].st = "returned",
                                              ![i].answer = answer,
                                              ![i].result = next.value]
                    /\ done_queue' = Append(done_queue, i)
                    /\ semaphore' = semaphore_release(semaphore)
    /\ UNCHANGED <<envVars, checkpoint, output, pc, runNo, task_results,
                   batchVars, requested, histVars>>

(* The exponential-backoff sleep is over: the next attempt's request. *)
Retry(i) ==
    /\ mode = "direct" /\ pc = "running"
    /\ flows[i].st = "backoff"
    /\ flows' = [flows EXCEPT ![i].st = "inflight", ![i].attempt = @ + 1,
                              ![i].requests = @ + 1]
    /\ UNCHANGED <<envVars, checkpoint, output, pc, runNo, task_results,
                   done_queue, semaphore, batchVars, requested, faults, histVars>>

(* One iteration of the as_completed loop: merge and, when the number of   *)
(* keys is a multiple of progress_update_frequency, save.                  *)
MergedResults ==
    Put(task_results,
        IF flows[Head(done_queue)].id = NoId THEN <<>>
        ELSE str(flows[Head(done_queue)].id),
        flows[Head(done_queue)].result)

SaveDue(results) == Len(results) % progress_update_frequency = 0

(* A coroutine that writes its own result into the mapping and the        *)
(* checkpoint file as soon as the answer is there, past the run loop.      *)
Merge_in_flow ==
    /\ mode = "direct" /\ pc = "running"
    /\ \E i \in 1..Len(flows) :
         /\ flows[i].st = "inflight"
         /\ task_results' = Put(task_results, str(flows[i].id), Text)
         /\ checkpoint' = save_checkpoint(task_results')
         /\ flows' = [flows EXCEPT ![i] = Consumed(@.id)]
         /\ semaphore' = semaphore + 1
    /\ UNCHANGED <<envVars, output, pc, runNo, done_queue, batchVars, requested,
                   faults, histVars>>

Merge ==
    /\ mode = "direct" /\ pc = "running"
    /\ done_queue # <<>>
    /\ task_results' = MergedResults
    /\ checkpoint' = IF SaveDue(MergedResults) THEN save_checkpoint(MergedResults)
                     ELSE checkpoint
    /\ flows' = [flows EXCEPT ![Head(done_queue)] = Consumed(@.id)]
    /\ done_queue' = Tail(done_queue)
    /\ UNCHANGED <<envVars, output, pc, runNo, semaphore, batchVars, requested,
                   faults, histVars>>

(* A loop that ends as soon as one result has been merged. *)
AnyMerged == \E i \in 1..Len(flows) : flows[i].st = "merged"

AllMerged == \A i \in 1..Len(flows) : flows[i].st = "merged"

(* The loop is over: final save, sort, return; main() writes the artifact. *)
FinishDirect ==
    /\ mode = "direct" /\ pc = "running"
    /\ AllMerged
    /\ checkpoint' = save_checkpoint(task_results)
    /\ output' = Complete(SortedResults(task_results))
    /\ pc' = "done"
    /\ UNCHANGED <<envVars, runNo, task_results, directVars, batchVars,
                   requested, faults, histVars>>

-----------------------------------------------------------------------------
(* Batch mode. *)

Min(a, b) == IF a < b THEN a ELSE b

(* A correlation ID made of the prefix and the timestamp alone. *)
custom_id_for_without_id(image_text, id) ==
    <<IF image_text THEN "pair" ELSE "img", 0>>

(* The correlation ID of an item: f"img_{img_id}_{ms}" or f"pair_{...}".   *)
(* The millisecond timestamp is left out: at worst a whole chunk is        *)
(* prepared within one millisecond, and then it tells no two items apart.  *)
custom_id_for(image_text, id) == <<IF image_text THEN "pair" ELSE "img", id>>

custom_id(id) == custom_id_for(is_image_text_task, id)

(* A program invocation reaches process_task_for_language_batch: load the  *)
(* checkpoint, compute the remaining items, return at once when none       *)
(* remain (main() then writes the returned mapping), else enter the loop.  *)
StartBatch ==
    /\ mode = "batch"
    /\ Invocation
    /\ LET checkpoint_data == load_checkpoint(checkpoint)
           remaining == get_remaining(items, Keys(checkpoint_data))
       IN /\ task_results' = checkpoint_data
          /\ items_for_batch_prep' = remaining
          /\ IF remaining = <<>>
             THEN /\ pc' = "done"
                  /\ output' = Complete(checkpoint_data)
                  /\ chunk' = NoChunk
             ELSE /\ pc' = "running"
                  /\ chunk' = [NoChunk EXCEPT !.at = "prepare"]
                  /\ UNCHANGED output
    /\ jobs' = <<>>
    /\ UNCHANGED directVars

(* A window that starts over at the first unresolved item. *)
batch_items_from_start ==
    SubSeq(items_for_batch_prep, 1,
           Min(chunk.i + batch_size, Len(items_for_batch_prep)))

(* batch_items = items_for_batch_prep[i:i + batch_size] *)
batch_items ==
    SubSeq(items_for_batch_prep, chunk.i + 1,
           Min(chunk.i + batch_size, Len(items_for_batch_prep)))

(* The chunk is over: the next iteration of the loop over chunks, or,      *)
(* after the last chunk, the sort and return, and main() writes the        *)
(* returned mapping.                                                       *)
NextChunk(results) ==
    IF chunk.i + batch_size < Len(items_for_batch_prep)
    THEN /\ chunk' = [NoChunk EXCEPT !.i = chunk.i + batch_size, !.at = "prepare"]
         /\ UNCHANGED <<pc, output>>
    ELSE /\ chunk' = [NoChunk EXCEPT !.i = chunk.i + batch_size]
         /\ pc' = "done"
         /\ output' = Complete(SortedResults(results))

(* prepare_batch_file_*: every item of the chunk enters the ID map under   *)
(* its correlation ID (a later item with the same correlation ID takes the *)
(* entry over); the items in bad (image or text not readable) get no       *)
(* request line.                                                           *)
id_map_of(its) ==
    [c \in {custom_id(its[j]) : j \in 1..Len(its)} |->
        its[CHOOSE j \in 1..Len(its) :
                /\ custom_id(its[j]) = c
                /\ \A k \in (j + 1)..Len(its) : custom_id(its[k]) # c]]

batch_lines_of(its, bad) == SelectSeq(its, LAMBDA x : x \notin bad)

(* One iteration of the loop over chunks up to the retry loop: prepare     *)
(* the batch file and upload it.  No request line, or a failed upload,     *)
(* skips the chunk.                                                        *)
Prepare ==
    /\ mode = "batch" /\ pc = "running"
    /\ chunk.at = "prepare"
    /\ \E bad \in SUBSET Range(batch_items), uploaded \in BOOLEAN :
         /\ faults + Cardinality(bad) <= MaxFaults
         /\ faults' = faults + Cardinality(bad)
         /\ unreadable' = unreadable \cup bad
         /\ IF batch_lines_of(batch_items, bad) = <<>> \/ ~uploaded
            THEN NextChunk(task_results)
            ELSE /\ chunk' = [chunk EXCEPT
                                !.at = "create",
                                !.current_id_map = id_map_of(batch_items),
                                !.batch_lines = batch_lines_of(batch_items, bad),
                                !.retries = 0]
                 /\ UNCHANGED <<pc, output>>
    /\ UNCHANGED <<envVars, checkpoint, runNo, task_results, directVars,
                   items_for_batch_prep, jobs, requested, loaded, prevRun,
                   crash>>

(* A retry loop that goes round once more. *)
retry_allowed_once_more(retries) == retries <= max_retries + 1

(* The condition of the retry loop (batch_succeeded is False). *)
retry_allowed(retries) == retries <= max_retries

(* A retry loop that, giving a chunk up, records its first item as failed. *)
AfterFailure_marking_items ==
    IF retry_allowed(chunk.retries + 1)
    THEN /\ chunk' = [chunk EXCEPT !.retries = @ + 1, !.at = "create",
                                   !.polls = 0, !.retrieves = 0,
                                   !.completed_batch = NoBatch]
         /\ UNCHANGED <<pc, output, task_results, checkpoint>>
    ELSE LET marked == Put(task_results, str(batch_items[1]), ErrStatus)
         IN /\ NextChunk(marked)
            /\ task_results' = marked
            /\ checkpoint' = save_checkpoint(marked)

(* retries += 1, then the condition of the retry loop: another round, or   *)
(* the chunk is given up; neither touches the results or the checkpoint.   *)
AfterFailure ==
    /\ IF retry_allowed(chunk.retries + 1)
       THEN /\ chunk' = [chunk EXCEPT !.retries = @ + 1, !.at = "create",
                                      !.polls = 0, !.retrieves = 0,
                                      !.completed_batch = NoBatch]
            /\ UNCHANGED <<pc, output>>
       ELSE NextChunk(task_results)
    /\ UNCHANGED <<task_results, checkpoint>>

(* A resubmission that leaves out part of the uploaded file. *)
job_requests_partial ==
    IF chunk.retries = 0 THEN chunk.batch_lines ELSE Tail(chunk.batch_lines)

(* The requests of a job created from file_id: the lines of the file that  *)
(* was uploaded once, before the retry loop.                               *)
job_requests == chunk.batch_lines

(* create_batch_job(file_id): a new job over the uploaded file, or None. *)
CreateJob ==
    /\ mode = "batch" /\ pc = "running"
    /\ chunk.at = "create"
    /\ \E created \in BOOLEAN :
         IF created
         THEN /\ jobs' = Append(jobs, [status |-> "in_progress",
                                      requests |-> job_requests,
                                      output |-> NoOutput])
              /\ chunk' = [chunk EXCEPT !.at = "poll", !.polls = 0,
                                         !.retrieves = 0, !.submitted = @ + 1]
              /\ requested' = requested \cup Range(job_requests)
              /\ UNCHANGED <<pc, output, task_results, checkpoint>>
         ELSE AfterFailure /\ UNCHANGED <<jobs, requested>>
    /\ UNCHANGED <<envVars, runNo, directVars, items_for_batch_prep, faults,
                   histVars>>

TerminalStatus == {"completed", "failed", "cancelled", "expired"}

(* What client.batches.retrieve can give for the job polled. *)
Retrieved ==
    {[status |-> s, output_file_id |-> o] :
        s \in TerminalStatus \cup {"in_progress"}, o \in BOOLEAN} \cup {NoBatch}

ReportedBy(job) ==
    {r \in Retrieved :
        /\ r.output_file_id => r.status = "completed"
        /\ job.status \in TerminalStatus => r.status \in {job.status, "None"}}

(* The output file of a completed job: a line for some of the requests and *)
(* possibly a line with a correlation ID the chunk does not know, in any   *)
(* order.  A line is                                                       *)
(*   ok           a 200 response with choices                              *)
(*   nochoices    a 200 response without choices                           *)
(*   non200       another status, "error" an object or absent              *)
(*   non200_null  another status, "error": null                            *)
(*   malformed    not JSON                                                 *)
Arrangements(S) ==
    {a \in UNION {[1..n -> S] : n \in 0..Cardinality(S)} :
        \A j, k \in 1..Len(a) : a[j] = a[k] => j = k}

LineKinds == {"ok", "nochoices", "non200", "non200_null", "malformed"}

OutputFiles(image_text, lines) ==
    UNION {{[j \in 1..Len(a) |->
               [custom_id |-> custom_id_for(image_text, a[j]),
                kind |-> IF a[j] = NoId THEN "ok" ELSE ks[j]]] :
               ks \in [1..Len(a) -> LineKinds]} :
           a \in Arrangements(Range(lines) \cup {NoId})}

(* The requests of the job without a 200 response with choices, and the    *)
(* lines that answer no request of the job.                                *)
Failures(lines, content) ==
    Len(lines)
      - Cardinality({j \in 1..Len(content) :
                        content[j].custom_id[2] # NoId /\ content[j].kind = "ok"})
      + Cardinality({j \in 1..Len(content) : content[j].custom_id[2] = NoId})

(* The request lines a prepared batch file can hold. *)
BatchLines ==
    {l \in UNION {[1..n -> Ids] : n \in 1..batch_size} :
        \A j \in 1..(Len(l) - 1) : l[j] < l[j + 1]}

(* The output files for a batch file that stay within a number of         *)
(* failures, as a table over <<request lines, failures allowed>>.          *)
OutputFilesWithin ==
    [t \in BOOLEAN \X BatchLines \X (0..MaxFaults) |->
        {[available |-> TRUE, lines |-> c] :
            c \in {f \in OutputFiles(t[1], t[2]) : Failures(t[2], f) <= t[3]}}] @@ <<>>

(* The output file behind the output_file_id of a retrieved job;           *)
(* client.files.content may also fail.                                     *)
FilesOf(r) ==
    IF r.status = "completed" /\ r.output_file_id
    THEN {NoOutput} \cup
         OutputFilesWithin[<<is_image_text_task, chunk.batch_lines,
                             MaxFaults - faults>>]
    ELSE {NoOutput}

SetStatus(r, file) ==
    IF r.status = "None" THEN jobs
    ELSE [jobs EXCEPT ![Len(jobs)].status = r.status, ![Len(jobs)].output = file]

(* A poll loop that goes round once more. *)
poll_again_once_more(polls) == polls <= max_polls

(* for i in range(max_polls) *)
poll_again(polls) == polls < max_polls

(* One iteration of the loop of poll_batch_status: a terminal status is    *)
(* returned, any other status and an exception lead to the next poll.      *)
Poll ==
    /\ mode = "batch" /\ pc = "running"
    /\ chunk.at = "poll"
    /\ poll_again(chunk.polls)
    /\ \E r \in ReportedBy(jobs[Len(jobs)]) :
         /\ chunk' = IF r.status \in TerminalStatus
                     THEN [chunk EXCEPT !.at = "handle", !.polls = @ + 1,
                                        !.retrieves = @ + 1,
                                        !.completed_batch = r]
                     ELSE [chunk EXCEPT !.polls = @ + 1, !.retrieves = @ + 1]
         /\ \E file \in FilesOf(r) :
              /\ jobs' = SetStatus(r, file)
              /\ faults' = faults + (IF file.available
                                     THEN Failures(chunk.batch_lines, file.lines)
                                     ELSE 0)
    /\ UNCHANGED <<envVars, checkpoint, output, pc, runNo, task_results,
                   directVars, items_for_batch_prep, requested, histVars>>

(* The polls of the loop are over: one last retrieve, whatever it gives. *)
PollCeiling ==
    /\ mode = "batch" /\ pc = "running"
    /\ chunk.at = "poll"
    /\ ~poll_again(chunk.polls)
    /\ \E r \in ReportedBy(jobs[Len(jobs)]) :
         /\ chunk' = [chunk EXCEPT !.at = "handle", !.retrieves = @ + 1,
                                   !.completed_batch = r]
         /\ \E file \in FilesOf(r) :
              /\ jobs' = SetStatus(r, file)
              /\ faults' = faults + (IF file.available
                                     THEN Failures(chunk.batch_lines, file.lines)
                                     ELSE 0)
    /\ UNCHANGED <<envVars, checkpoint, output, pc, runNo, task_results,
                   directVars, items_for_batch_prep, requested, histVars>>

(* The value recorded for a line with a response. *)
LineValue(kind) ==
    IF kind = "ok" THEN Text
    ELSE IF kind = "nochoices" THEN ErrNoChoices ELSE ErrStatus

(* A line that raises inside the try of the loop body: json.loads on a     *)
(* malformed line, error_data.get on "error": null.                        *)
LineRaises(kind) == kind \in {"malformed", "non200_null"}

(* A reconciliation that gives up the whole file at a line it cannot read. *)
process_batch_results_fatal(content, id_map) ==
    IF \E j \in 1..Len(content) :
          content[j].kind = "malformed" \/ content[j].custom_id \notin DOMAIN id_map
    THEN <<>>
    ELSE [j \in 1..Len(content) |->
            [k |-> str(id_map[content[j].custom_id]), v |-> LineValue(content[j].kind)]]

(* process_batch_results on the lines of the output file. *)
RECURSIVE process_batch_results(_, _)
process_batch_results(content, id_map) ==
    IF Len(content) = 0 THEN <<>>
    ELSE LET line == content[Len(content)]
             results == process_batch_results(SubSeq(content, 1, Len(content) - 1),
                                              id_map)
         IN IF line.kind = "malformed" THEN results
            ELSE IF line.custom_id \notin DOMAIN id_map THEN results
            ELSE IF LineRaises(line.kind) THEN results
            ELSE Put(results, str(id_map[line.custom_id]), LineValue(line.kind))

(* The provider's jobs the run leaves behind when it stops polling one: a  *)
(* job in a terminal status is over, any other stays open.                 *)
Settled ==
    IF jobs[Len(jobs)].status \in TerminalStatus
    THEN SubSeq(jobs, 1, Len(jobs) - 1)
    ELSE jobs

HasOutput ==
    chunk.completed_batch.status = "completed" /\ chunk.completed_batch.output_file_id

(* batch_run_results: what process_batch_results returns for the output    *)
(* file of the job at hand, {} when the file cannot be fetched.            *)
batch_run_results ==
    IF jobs[Len(jobs)].output.available
    THEN process_batch_results(jobs[Len(jobs)].output.lines, chunk.current_id_map)
    ELSE <<>>

(* The body of the retry loop after poll_batch_status returned: a          *)
(* completed job with an output file is reconciled and saved, everything   *)
(* else counts as a retry.                                                 *)
Handle ==
    /\ mode = "batch" /\ pc = "running"
    /\ chunk.at = "handle"
    /\ IF HasOutput
       THEN \E merged \in {Update(task_results, batch_run_results)} :
               /\ task_results' = merged
               /\ checkpoint' = save_checkpoint(merged)
               /\ NextChunk(merged)
       ELSE AfterFailure
    /\ jobs' = Settled
    /\ UNCHANGED <<envVars, runNo, directVars, items_for_batch_prep, requested,
                   faults, histVars>>

-----------------------------------------------------------------------------
(* main() over several (language, task) pairs.  The run of a pair is kept  *)
(* to its file accesses: load_checkpoint when it starts, save_checkpoint   *)
(* as results are merged and when it ends, and the artifact main() writes. *)

(* The item list of the tasks: one image, or two. *)
PairItemLists == {<<2>>, <<2, 9>>}

(* The checkpoint files earlier invocations left: none, or one that holds  *)
(* the result of the item with ID 2.                                       *)
LeftCheckpoints == {NoFile, Complete(<<[k |-> str(2), v |-> Text]>>)}

InitPairs ==
    /\ mode \in {"direct", "batch"}
    /\ language = languages_to_process[1]
    /\ task = task_numbers[1]
    /\ items \in PairItemLists
    /\ \E left \in [Pairs -> LeftCheckpoints] :
          disk = [path \in Paths |->
                    IF \E pair \in Pairs :
                          path = get_checkpoint_filename(pair[1], pair[2])
                    THEN left[CHOOSE pair \in Pairs :
                                path = get_checkpoint_filename(pair[1], pair[2])]
                    ELSE NoFile]
    /\ listing = <<>>
    /\ data = NoData
    /\ prompt = NoPrompt
    /\ Fresh

(* The items of the pair that have no key yet. *)
unresolved_items(results) ==
    IF mode = "direct" THEN remaining_items(items, Keys(results))
    ELSE get_remaining(items, Keys(results))

(* The task function is called for the pair at hand and loads the          *)
(* checkpoint of the pair.                                                 *)
BeginPair ==
    /\ pc = "idle"
    /\ \E checkpoint_data \in
            {load_checkpoint(disk[get_checkpoint_filename(language, task)])} :
         /\ task_results' = checkpoint_data
         /\ loaded' = checkpoint_data
    /\ pc' = "running"
    /\ UNCHANGED <<envVars, checkpoint, output, runNo, directVars, batchVars,
                   requested, unreadable, faults, prevRun, crash>>

(* A result or an error string is merged; the direct backend saves when    *)
(* the number of keys is a multiple of progress_update_frequency, the      *)
(* batch backend after every update.                                       *)
ResolveItem ==
    /\ pc = "running"
    /\ \E j \in 1..Len(unresolved_items(task_results)),
          value \in {Text, IF mode = "direct" THEN ErrNoContent ELSE ErrNoChoices} :
         /\ task_results' =
                Put(task_results, str(unresolved_items(task_results)[j]), value)
         /\ disk' =
                IF mode = "batch" \/ SaveDue(task_results')
                THEN [disk EXCEPT ![get_checkpoint_filename(language, task)] =
                                      save_checkpoint(task_results')]
                ELSE disk
    /\ UNCHANGED <<mode, task, items, listing, data, prompt, language,
                   checkpoint, output, pc, runNo, directVars, batchVars,
                   requested, faults, histVars>>

(* The task function returns (the direct backend after its final save,     *)
(* unless nothing was left to do), main() writes the artifact of the pair  *)
(* and goes to the next task, to the next language, or ends.               *)
EndPair ==
    /\ pc = "running"
    /\ mode = "direct" => unresolved_items(task_results) = <<>>
    /\ LET early == unresolved_items(loaded) = <<>>
           a == CHOOSE a \in 1..Len(languages_to_process) :
                    languages_to_process[a] = language
           b == CHOOSE b \in 1..Len(task_numbers) : task_numbers[b] = task
       IN /\ disk' =
                [disk EXCEPT
                   ![get_checkpoint_filename(language, task)] =
                       IF mode = "direct" /\ ~early
                       THEN save_checkpoint(task_results) ELSE @,
                   ![output_filename(language, task)] =
                       IF early THEN Complete(task_results)
                       ELSE Complete(SortedResults(task_results))]
          /\ IF b < Len(task_numbers)
             THEN /\ task' = task_numbers[b + 1]
                  /\ UNCHANGED language
                  /\ pc' = "idle"
             ELSE IF a < Len(languages_to_process)
             THEN /\ task' = task_numbers[1]
                  /\ language' = languages_to_process[a + 1]
                  /\ pc' = "idle"
             ELSE /\ UNCHANGED <<task, language>>
                  /\ pc' = "done"
    /\ task_results' = <<>>
    /\ loaded' = <<>>
    /\ UNCHANGED <<mode, items, listing, data, prompt, checkpoint, output,
                   runNo, directVars, batchVars, requested, unreadable, faults,
                   prevRun, crash>>

-----------------------------------------------------------------------------
(* Interruption of the process. *)

(* The mappings the next step of the run may hand to save_checkpoint. *)
PendingSaves ==
    IF pc # "running" THEN {}
    ELSE IF mode = "direct"
    THEN IF done_queue # <<>>
         THEN (IF SaveDue(MergedResults) THEN {MergedResults} ELSE {})
         ELSE (IF AllMerged THEN {task_results} ELSE {})
    ELSE IF chunk.at = "handle" /\ HasOutput
         THEN {Update(task_results, batch_run_results)}
         ELSE {}

Dead ==
    /\ pc' = "crashed"
    /\ task_results' = <<>>
    /\ flows' = <<>>
    /\ done_queue' = <<>>
    /\ semaphore' = concurrency
    /\ items_for_batch_prep' = <<>>
    /\ chunk' = NoChunk
    /\ requested' = {}
    /\ unreadable' = {}
    /\ UNCHANGED <<envVars, output, runNo, jobs, faults, loaded, prevRun>>

(* The process is killed between two steps. *)
Crash ==
    /\ pc = "running"
    /\ Dead
    /\ UNCHANGED <<checkpoint, crash>>

(* The process is killed inside save_checkpoint, after open(..., 'w')      *)
(* truncated the file and before json.dump wrote all of it.                *)
CrashInSave ==
    /\ \E results \in PendingSaves :
         crash' = [inSave |-> TRUE, old |-> load_checkpoint(checkpoint),
                   new |-> results]
    /\ checkpoint' = Torn
    /\ Dead

-----------------------------------------------------------------------------
Next ==
    \/ StartDirect
    \/ \E i \in 1..Len(flows) : Acquire(i)
    \/ \E i \in 1..Len(flows) : Respond(i)
    \/ \E i \in 1..Len(flows) : Retry(i)
    \/ Merge
    \/ FinishDirect
    \/ StartBatch
    \/ Prepare
    \/ CreateJob
    \/ Poll
    \/ PollCeiling
    \/ Handle
    \/ Crash
    \/ CrashInSave

Spec == Init /\ [][Next]_vars

(* The direct backend alone, over a directory with a duplicated ID. *)
NextDuplicate ==
    \/ StartDirect
    \/ \E i \in 1..Len(flows) : Acquire(i)
    \/ \E i \in 1..Len(flows) : Respond(i)
    \/ \E i \in 1..Len(flows) : Retry(i)
    \/ Merge
    \/ FinishDirect
    \/ Crash
    \/ CrashInSave

SpecDuplicate == InitDuplicate /\ [][NextDuplicate]_vars

(* The loader alone, over every listing of a small data directory. *)
NextLoader == Load

SpecLoader == InitLoader /\ [][NextLoader]_vars

(* The prompt builder of the direct backend alone. *)
NextPrompt == BuildPrompt

SpecPrompt == InitPrompt /\ [][NextPrompt]_vars

(* main() over the pairs of several languages and tasks. *)
NextPairs ==
    \/ BeginPair
    \/ ResolveItem
    \/ EndPair

SpecPairs == InitPairs /\ [][NextPairs]_vars

(* Both backends when the process is not interrupted.  Every provider call *)
(* returns, the event loop runs every coroutine that can run and the       *)
(* sequential code of the batch backend goes on after every call: a step   *)
(* that can be taken is eventually taken.                                  *)
NextUninterrupted ==
    \/ StartDirect
    \/ \E i \in 1..Len(flows) : Acquire(i)
    \/ \E i \in 1..Len(flows) : Respond(i)
    \/ \E i \in 1..Len(flows) : Retry(i)
    \/ Merge
    \/ FinishDirect
    \/ StartBatch
    \/ Prepare
    \/ CreateJob
    \/ Poll
    \/ PollCeiling
    \/ Handle

SpecUninterrupted ==
    Init /\ [][NextUninterrupted]_vars /\ WF_vars(NextUninterrupted)

-----------------------------------------------------------------------------
(* Properties. *)

(* Every item that has an ID is a key of the checkpoint the run loaded. *)
AllItemsCheckpointed ==
    \A j \in 1..Len(items) : items[j] # NoId => HasKey(loaded, str(items[j]))

InRun == pc \in {"running", "done"}

(* C1: when the checkpoint a run loads already has the ID of every item as *)
(* a key, the run sends no model request (direct mode) and submits no      *)
(* batch job (batch mode).                                                 *)
C1_NoRequestWhenAllCheckpointed ==
    (InRun /\ AllItemsCheckpointed) =>
        /\ requested = {}
        /\ \A i \in 1..Len(flows) : flows[i].requests = 0
        /\ jobs = <<>>
        /\ chunk.batch_lines = <<>>

(* A second run of the batch backend over three checkpointed items. *)
C1_Witness ==
    /\ mode = "batch" /\ pc = "done" /\ runNo = 2
    /\ Len(items) = MaxItems
    /\ AllItemsCheckpointed
    /\ requested = {}

(* C2: a run that follows a completed run over the same items and finds    *)
(* them all in the checkpoint writes an artifact identical to the first    *)
(* run's, key order included.                                              *)
C2_SecondRunSameArtifact ==
    (pc = "done" /\ runNo = 2 /\ prevRun.completed /\ AllItemsCheckpointed
        /\ prevRun.output.state = "complete")
        => output = prevRun.output

(* C3: the mapping a run returns, which main() writes as the artifact, is  *)
(* in ascending numeric order of the integer value of its keys on every    *)
(* path, the path with no items remaining included.                        *)
C3_ArtifactAscending ==
    output.state = "complete" => IsSortedByInt(output.data)

(* C4: a run started after an interruption sends to the provider only      *)
(* items whose ID is not a key of the checkpoint that was on disk.         *)
C4_RestartRequestsOnlyRemaining ==
    InRun =>
        /\ \A id \in requested : ~HasKey(loaded, str(id))
        /\ requested \subseteq Range(items)

(* A run restarted after a crash found K > 0 items on disk and sent some   *)
(* of the others.                                                          *)
C4_Witness ==
    /\ runNo = 2 /\ ~prevRun.completed /\ InRun
    /\ loaded # <<>>
    /\ requested # {}
    /\ \E j \in 1..Len(items) : HasKey(loaded, str(items[j]))

(* C5: an interruption inside save_checkpoint leaves on disk either the    *)
(* previous complete checkpoint or the new one.                            *)
C5_CrashInSaveKeepsCheckpoint ==
    (pc = "crashed" /\ crash.inSave) =>
        /\ checkpoint.state = "complete"
        /\ load_checkpoint(checkpoint) \in {crash.old, crash.new}

(* The merged results a crash would lose: the entries of task_results that *)
(* the checkpoint on disk does not hold.                                   *)
Unsaved ==
    {e \in Entries(task_results) : e \notin Entries(load_checkpoint(checkpoint))}

(* What an interruption inside save_checkpoint lost: the entries of the    *)
(* mapping being saved that the file left on disk does not hold.           *)
LostInSave ==
    {e \in Entries(crash.new) : e \notin Entries(load_checkpoint(checkpoint))}

(* C6: in direct mode a crash at any point of a run loses at most          *)
(* progress_update_frequency - 1 completed results: the results merged     *)
(* into task_results and absent from the checkpoint on disk never number   *)
(* more than progress_update_frequency - 1 between two merge steps, and a  *)
(* crash leaves no more than that many behind.                             *)
C6_CrashLosesBelowFrequency ==
    mode = "direct" =>
        /\ pc = "running" =>
             Cardinality(Unsaved) <= progress_update_frequency - 1
        /\ (pc = "crashed" /\ crash.inSave) =>
             Cardinality(LostInSave) <= progress_update_frequency - 1

(* C7: an item whose checkpointed value is an "Error:" string is never     *)
(* sent to the provider by a later run, in either mode.                    *)
C7_ErrorsNotRequestedAgain ==
    InRun =>
        \A j \in 1..Len(loaded) :
            IsError(loaded[j].v) => int(loaded[j].k) \notin requested

(* A later run finished after sending other items while the checkpoint it  *)
(* loaded held an error string.                                            *)
C7_Witness ==
    /\ runNo = 2 /\ pc = "done"
    /\ requested # {}
    /\ \E j \in 1..Len(loaded) :
         IsError(loaded[j].v) /\ int(loaded[j].k) \in Range(items)

InFlight == {i \in 1..Len(flows) : flows[i].st = "inflight"}

Holding == {i \in 1..Len(flows) : flows[i].st \in {"inflight", "backoff"}}

Waiting == {i \in 1..Len(flows) : flows[i].st = "waiting"}

(* C8: in direct mode at most concurrency model requests are in flight;    *)
(* the semaphore counts the free slots, so a flow that finds none waits.   *)
C8_InFlightWithinConcurrency ==
    (mode = "direct" /\ pc = "running") =>
        /\ Cardinality(InFlight) <= concurrency
        /\ semaphore = concurrency - Cardinality(Holding)
        /\ semaphore >= 0

(* Every slot is taken by a request in flight and a flow is waiting. *)
C8_Witness ==
    /\ mode = "direct" /\ pc = "running"
    /\ Cardinality(InFlight) = concurrency
    /\ semaphore = 0
    /\ Waiting # {}

(* C9: in direct mode an item is sent at most retry_attempts times; when   *)
(* every attempt fails the flow returns the terminal error string instead  *)
(* of raising, and the string is recorded under the item's ID.             *)
C9_RetriesBounded ==
    (mode = "direct" /\ pc = "running") =>
        \A i \in 1..Len(flows) :
            /\ flows[i].requests <= retry_attempts
            /\ flows[i].attempt < retry_attempts
            /\ flows[i].st = "backoff" => flows[i].requests < retry_attempts
            /\ (flows[i].answer = "exception" /\ flows[i].requests = retry_attempts
                  /\ flows[i].st # "inflight")
                 => /\ flows[i].st = "returned"
                    /\ flows[i].result = ErrAfterAttempts
            /\ (flows[i].st = "merged" /\ flows[i].id # NoId)
                 => HasKey(task_results, str(flows[i].id))

(* An item failed on every attempt and its terminal error string is ready  *)
(* for the run loop.                                                       *)
C9_Witness ==
    /\ mode = "direct" /\ pc = "running"
    /\ \E i \in 1..Len(flows) :
         /\ flows[i].st = "returned"
         /\ flows[i].requests = retry_attempts
         /\ flows[i].result = ErrAfterAttempts

(* C10: in direct mode an answer without content is recorded at once as an *)
(* "Error:" value: the flow returns and does not ask again.                *)
C10_NoContentNotRetried ==
    (mode = "direct" /\ pc = "running") =>
        \A i \in 1..Len(flows) :
            flows[i].answer = "nocontent" =>
                /\ flows[i].st = "returned"
                /\ flows[i].result = ErrNoContent
                /\ IsError(flows[i].result)

(* The first answer to an item had no content, with attempts left. *)
C10_Witness ==
    /\ mode = "direct" /\ pc = "running"
    /\ \E i \in 1..Len(flows) :
         /\ flows[i].answer = "nocontent"
         /\ flows[i].requests = 1
         /\ flows[i].requests < retry_attempts
         /\ flows[i].st = "returned"

(* The job the run is polling or handling exists. *)
JobAtHand ==
    /\ mode = "batch" /\ pc = "running"
    /\ chunk.at \in {"poll", "handle"}

(* C11: in batch mode every submission of a chunk, the first and each      *)
(* retry, carries the same requests: one for each item of the chunk whose  *)
(* request line was written when the batch file was prepared, never a part *)
(* of them; the number equals the chunk size when every item of the chunk  *)
(* could be read and encoded.                                              *)
C11_RetryResubmitsWholeFile ==
    JobAtHand =>
        /\ jobs # <<>>
        /\ jobs[Len(jobs)].requests = chunk.batch_lines
        /\ Range(chunk.batch_lines) \subseteq Range(batch_items)
        /\ chunk.batch_lines # <<>>

(* A retried submission of a chunk of batch_size items is being polled. *)
C11_Witness ==
    /\ JobAtHand /\ chunk.at = "poll"
    /\ chunk.retries > 0
    /\ Len(batch_items) = batch_size
    /\ Len(jobs[Len(jobs)].requests) = batch_size

(* C11 as stated: every retried submission of a chunk carries as many      *)
(* requests as the chunk has items.                                        *)
C11_SubmissionHasChunkSize ==
    (JobAtHand /\ jobs # <<>> /\ chunk.retries > 0) =>
        Len(jobs[Len(jobs)].requests) = Len(batch_items)

(* The job at hand ended without results: failed, cancelled or expired,    *)
(* completed without an output file, or no terminal status was obtained.   *)
JobGaveNothing ==
    /\ mode = "batch" /\ pc = "running"
    /\ chunk.at = "handle"
    /\ ~HasOutput

(* C12: in batch mode a job that ends failed, cancelled or expired, or     *)
(* completed without an output file, is followed by a new job submission   *)
(* for the same chunk while retries remain; one chunk gets at most         *)
(* max_retries retries, max_retries + 1 job submissions in all, and is     *)
(* then abandoned.                                                         *)
C12_RetriesWithinMaxRetries ==
    /\ [](mode = "batch" =>
            /\ chunk.retries <= max_retries
            /\ chunk.submitted <= chunk.retries + 1
            /\ chunk.submitted <= max_retries + 1)
    /\ [][(JobGaveNothing /\ pc' # "crashed") =>
            IF chunk.retries < max_retries
            THEN /\ chunk'.at = "create"
                 /\ chunk'.i = chunk.i
                 /\ chunk'.retries = chunk.retries + 1
                 /\ chunk'.batch_lines = chunk.batch_lines
            ELSE /\ chunk'.i = chunk.i + batch_size
                 /\ chunk'.at \in {"prepare", "none"}]_vars

(* The last submission allowed to a chunk failed: the chunk is about to be *)
(* abandoned after max_retries + 1 jobs.                                   *)
C12_Witness ==
    /\ JobGaveNothing
    /\ chunk.completed_batch.status \in {"failed", "cancelled", "expired"}
    /\ chunk.submitted = max_retries + 1
    /\ chunk.retries = max_retries

(* The retry loop of the chunk is at its last round and the round fails:   *)
(* the job gave nothing, or create_batch_job returned None (a step of      *)
(* CreateJob that creates no job).                                         *)
LastRoundFails ==
    /\ mode = "batch" /\ pc = "running"
    /\ chunk.retries = max_retries
    /\ \/ JobGaveNothing
       \/ chunk.at = "create" /\ Len(jobs') = Len(jobs)
    /\ pc' # "crashed"

(* C13: in batch mode a chunk that exhausts its retries is abandoned for   *)
(* the run: no item of the chunk gains a key in task_results, task_results *)
(* and the checkpoint file are left as they are, and the run goes on to    *)
(* the next chunk (after the last chunk: to the sort and the artifact).    *)
C13_AbandonedChunkLeavesResults ==
    [][LastRoundFails =>
         /\ \A j \in 1..Len(batch_items) : ~HasKey(task_results', str(batch_items[j]))
         /\ task_results' = task_results
         /\ checkpoint' = checkpoint
         /\ chunk'.i = chunk.i + batch_size
         /\ IF chunk.i + batch_size < Len(items_for_batch_prep)
            THEN pc' = "running" /\ chunk'.at = "prepare"
            ELSE pc' = "done" /\ output' = Complete(SortedResults(task_results))]_vars

(* A first chunk was reconciled and saved; the last job allowed to the     *)
(* second chunk has failed and the chunk is being given up.                *)
C13_Witness ==
    /\ JobGaveNothing
    /\ chunk.retries = max_retries
    /\ chunk.submitted = max_retries + 1
    /\ chunk.i = batch_size
    /\ task_results # <<>>
    /\ checkpoint = Complete(task_results)
    /\ \A j \in 1..Len(batch_items) : ~HasKey(task_results, str(batch_items[j]))

(* The jobs of the run that the provider has not brought to a terminal     *)
(* status.                                                                 *)
OpenJobs == {j \in 1..Len(jobs) : jobs[j].status \notin TerminalStatus}

(* C14: batch mode is sequential at the chunk level: a submitted job is    *)
(* polled to a terminal status and reconciled before another job is        *)
(* submitted, so at no time is more than one submitted job in a            *)
(* non-terminal status.                                                    *)
C14_OneJobAtATime ==
    mode = "batch" => Cardinality(OpenJobs) <= 1

(* poll_batch_status returned a job that is not in a terminal status, or   *)
(* None.                                                                   *)
Indeterminate ==
    /\ mode = "batch" /\ pc = "running"
    /\ chunk.at = "handle"
    /\ chunk.completed_batch.status \notin TerminalStatus

(* C15: the poll loop checks the status of one job at most max_polls       *)
(* times, retrieves it once more after the loop and then stops waiting:    *)
(* max_polls + 1 retrievals at most; a job that is still not terminal      *)
(* counts as a failed round and adds no result of any item of the chunk to *)
(* task_results or to the checkpoint.                                      *)
C15_PollCeiling ==
    /\ [](mode = "batch" =>
            /\ chunk.polls <= max_polls
            /\ chunk.retrieves <= max_polls + 1
            /\ Indeterminate => chunk.retrieves = max_polls + 1)
    /\ [][(Indeterminate /\ pc' # "crashed") =>
            /\ task_results' = task_results
            /\ checkpoint' = checkpoint
            /\ \A j \in 1..Len(batch_items) :
                 ~HasKey(task_results', str(batch_items[j]))]_vars

(* The job was still in progress at every poll and at the last retrieval. *)
C15_Witness ==
    /\ Indeterminate
    /\ chunk.completed_batch.status = "in_progress"
    /\ chunk.polls = max_polls
    /\ chunk.retrieves = max_polls + 1

(* C15 as stated: at most max_polls status checks are made for one job. *)
C15_AtMostMaxPollsChecks ==
    mode = "batch" => chunk.retrieves <= max_polls

(* C16: whatever the provider answers (request errors, failed jobs, poll   *)
(* errors, poll timeouts), as long as every provider call returns and the  *)
(* process is not interrupted, a run that has started ends and main()      *)
(* writes the artifact with the results the run has, in both modes.        *)
C16_RunTerminates ==
    (pc = "running") ~> (pc = "done" /\ output.state = "complete")

(* A run in which the provider failed ended with its artifact written. *)
C16_Witness ==
    /\ pc = "done"
    /\ output.state = "complete"
    /\ faults > 0
    /\ requested # {}

(* C17: in batch mode the checkpoint is saved as soon as a chunk resolves, *)
(* before the next chunk is prepared or submitted: while the run prepares, *)
(* submits, polls and handles, and when it ends, the checkpoint on disk    *)
(* holds every result the run has obtained so far.                         *)
C17_CheckpointHoldsResults ==
    (mode = "batch" /\ InRun) => load_checkpoint(checkpoint) = task_results

(* A first chunk resolved in this run and the next chunk is about to be    *)
(* prepared.                                                               *)
C17_Witness ==
    /\ mode = "batch" /\ pc = "running"
    /\ chunk.at = "prepare" /\ chunk.i = batch_size
    /\ Len(task_results) > Len(loaded)
    /\ checkpoint = Complete(task_results)

(* The run is about to reconcile the fetched output file of a completed    *)
(* job, and the step that follows is the run's.                            *)
Reconciling ==
    /\ mode = "batch" /\ pc = "running"
    /\ chunk.at = "handle"
    /\ HasOutput
    /\ jobs[Len(jobs)].output.available
    /\ pc' # "crashed"

OutputLines == jobs[Len(jobs)].output.lines

Mapped(line) == line.custom_id \in DOMAIN chunk.current_id_map

KeyOf(line) == str(chunk.current_id_map[line.custom_id])

(* The lines with a response for an item of the chunk are recorded. *)
OtherLinesRecorded ==
    \A j \in 1..Len(OutputLines) :
        (Mapped(OutputLines[j]) /\ OutputLines[j].kind \in {"ok", "nochoices"})
            => /\ HasKey(task_results', KeyOf(OutputLines[j]))
               /\ Get(task_results', KeyOf(OutputLines[j]))
                    = LineValue(OutputLines[j].kind)

(* C18: reconciling a completed job, a result line with a status other     *)
(* than 200 puts an "Error:" string under its item's ID, and every other   *)
(* line of the output is still processed and recorded.                     *)
C18_Non200RecordedAsError ==
    [][Reconciling =>
         /\ \A j \in 1..Len(OutputLines) :
              (Mapped(OutputLines[j])
                 /\ OutputLines[j].kind \in {"non200", "non200_null"})
                  => /\ HasKey(task_results', KeyOf(OutputLines[j]))
                     /\ IsError(Get(task_results', KeyOf(OutputLines[j])))
         /\ OtherLinesRecorded]_vars

(* C19: reconciling a completed job, a line that is not JSON or whose      *)
(* correlation ID is not in the chunk's ID map adds no key and is not      *)
(* fatal: the other lines are processed and recorded, the results are      *)
(* saved and the chunk counts as resolved.                                 *)
C19_BadLinesSkipped ==
    [][Reconciling =>
         /\ \A j \in 1..Len(OutputLines) :
              (Mapped(OutputLines[j]) /\ OutputLines[j].kind = "malformed")
                  => ~HasKey(task_results', KeyOf(OutputLines[j]))
         /\ Keys(task_results') \subseteq
              Keys(task_results) \cup
              {KeyOf(OutputLines[j]) :
                  j \in {i \in 1..Len(OutputLines) : Mapped(OutputLines[i])}}
         /\ OtherLinesRecorded
         /\ \A j \in 1..Len(OutputLines) :
              (Mapped(OutputLines[j]) /\ OutputLines[j].kind = "non200")
                  => HasKey(task_results', KeyOf(OutputLines[j]))
         /\ checkpoint' = Complete(task_results')
         /\ chunk'.i = chunk.i + batch_size]_vars

(* The output file at hand begins with a line the run cannot use (not JSON *)
(* or an unknown correlation ID) and goes on with a good line.             *)
C19_Witness ==
    /\ mode = "batch" /\ pc = "running" /\ chunk.at = "handle" /\ HasOutput
    /\ jobs[Len(jobs)].output.available
    /\ Len(OutputLines) >= 2
    /\ OutputLines[1].kind = "malformed" \/ ~Mapped(OutputLines[1])
    /\ Mapped(OutputLines[2]) /\ OutputLines[2].kind = "ok"

(* C20: in both modes, an item whose image or text file could not be read  *)
(* has, when the run ends, an "Error: ..." string under its ID in the      *)
(* result mapping and in the checkpoint, and the checkpoint holds every    *)
(* result the run obtained for the other items.                            *)
C20_LocalErrorsRecorded ==
    (pc = "done") =>
        /\ \A x \in unreadable :
              /\ HasKey(task_results, str(x))
              /\ IsError(Get(task_results, str(x)))
        /\ load_checkpoint(checkpoint) = task_results

-----------------------------------------------------------------------------
(* The item loaders. *)

(* All items the loader returned, pairs first. *)
LoadedItems == data.image_text \o data.image_only

Directory == Range(listing)

(* The candidates in the order the text pairing is stated to try them. *)
StatedCandidates(image) ==
    <<Name(image.stem, "txt"), Name(image.stem, "text")>> \o
    (IF digits_of(image.stem) = <<>> THEN <<>>
     ELSE LET id == chars_of(int_of(digits_of(image.stem)))
          IN <<Name(<<"text">> \o id, "txt"), Name(<<"text">> \o id, "text"),
               Name(id, "txt"), Name(id, "text")>>)

(* C21: in both backends the text file paired with an image is the first   *)
(* existing one of exact-stem .txt, exact-stem .text, text{ID}.txt,        *)
(* text{ID}.text, {ID}.txt, {ID}.text; with image5.txt and text5.txt both  *)
(* present, image5.jpg is paired with image5.txt.                          *)
C21_ExactStemFirst ==
    data.loaded =>
        \A j \in 1..Len(LoadedItems) :
            LoadedItems[j].text_path =
                first_existing(StatedCandidates(LoadedItems[j].image_path),
                               Directory)

(* The value of a digit sequence, most significant digit first. *)
RECURSIVE DecimalValue(_, _)
DecimalValue(D, acc) ==
    IF D = <<>> THEN acc
    ELSE DecimalValue(Tail(D), 10 * acc + digit_value(Head(D)))

(* The items the run of the task starts from, before any checkpoint. *)
Dispatched ==
    IF mode = "direct" THEN remaining_items(items, {})
    ELSE get_remaining(items, {})

(* C22: the ID of an image name{D}.ext is int(D); an image without digits  *)
(* in its stem does not stop the loader and is not among the items the run *)
(* dispatches, so it is in no request and gets no key.                     *)
C22_IdIsIntOfDigits ==
    data.loaded =>
        /\ \A j \in 1..Len(items_to_process_info(data)) :
             LET image == items_to_process_info(data)[j].image_path
             IN IF digits_of(image.stem) = <<>>
                THEN items[j] = NoId
                ELSE items[j] = DecimalValue(digits_of(image.stem), 0)
        /\ \A j \in 1..Len(Dispatched) : Dispatched[j] # NoId
        /\ \A j \in 1..Len(Dispatched) : Dispatched[j] >= 0
        /\ mode = "batch" =>
             \A j \in 1..Len(data.all_images) :
                 digits_of(data.all_images[j].stem) # <<>>

(* The direct loader returned image05.jpg, whose ID is 5, and cover.jpg,   *)
(* which has none.                                                         *)
C22_Witness ==
    /\ data.loaded /\ mode = "direct" /\ ~is_image_text_task
    /\ \E j, k \in 1..Len(data.image_only) :
         /\ data.image_only[j].image_path = Name(<<"image", "0", "5">>, "jpg")
         /\ items[j] = 5
         /\ data.image_only[k].image_path = Name(<<"cover">>, "jpg")
         /\ items[k] = NoId

(* C23: no two items the loader returned have the same ID. *)
C23_OneItemPerId ==
    data.loaded =>
        \A j, k \in 1..Len(LoadedItems) :
            get_image_id_from_path(LoadedItems[j].image_path)
                = get_image_id_from_path(LoadedItems[k].image_path)
            => j = k

(* A list of items in ascending order of ID, an image without ID last. *)
AscendingById(its) ==
    \A j \in 1..(Len(its) - 1) :
        SortKey(get_image_id_from_path(its[j].image_path))
            <= SortKey(get_image_id_from_path(its[j + 1].image_path))

(* C24: the loader returns two disjoint lists, each in ascending order of  *)
(* ID; at most limit images are retained and every item of either list is  *)
(* one of the retained images.                                             *)
C24_ListsWithinRetained ==
    data.loaded =>
        /\ \A j \in 1..Len(data.image_text), k \in 1..Len(data.image_only) :
             data.image_text[j].image_path # data.image_only[k].image_path
        /\ AscendingById(data.image_text)
        /\ AscendingById(data.image_only)
        /\ Len(data.all_images) <= limit
        /\ \A j \in 1..Len(LoadedItems) :
             LoadedItems[j].image_path \in Range(data.all_images)

-----------------------------------------------------------------------------
(* The run loop of the direct backend. *)

(* The run loop takes the coroutine that completed first and merges the    *)
(* pair it returned.                                                       *)
CoordinatorMerges ==
    /\ done_queue # <<>>
    /\ done_queue' = Tail(done_queue)
    /\ flows' = [flows EXCEPT ![Head(done_queue)] = Consumed(@.id)]
    /\ task_results' =
           Put(task_results,
               IF flows[Head(done_queue)].id = NoId THEN <<>>
               ELSE str(flows[Head(done_queue)].id),
               flows[Head(done_queue)].result)

(* The run loop is over and saves the mapping it holds. *)
CoordinatorFinishes ==
    /\ AllMerged
    /\ pc' = "done"
    /\ UNCHANGED <<flows, done_queue, task_results>>

(* C26: in a run of the direct backend, a step that changes the result     *)
(* mapping or the checkpoint file is a step of the run loop (it merges the *)
(* pair of the coroutine that completed first, or it is the final save),   *)
(* and what it writes is the run loop's own mapping; a step of an item     *)
(* coroutine only changes that coroutine and the completion queue.         *)
C26_OnlyRunLoopWrites ==
    [][(mode = "direct" /\ pc = "running" /\ pc' # "crashed")
        => /\ (task_results' # task_results \/ checkpoint' # checkpoint)
                => /\ CoordinatorMerges \/ CoordinatorFinishes
                   /\ checkpoint' \in {checkpoint, save_checkpoint(task_results')}
           /\ (\E i \in 1..Len(flows) :
                    /\ flows[i].st \in {"waiting", "inflight", "backoff"}
                    /\ flows'[i] # flows[i])
                => UNCHANGED <<task_results, checkpoint>>]_vars

(* Two coroutines are at work (one waits for its answer, one has returned  *)
(* and is not merged yet) after the run loop has merged a third.           *)
C26_Witness ==
    /\ mode = "direct" /\ pc = "running"
    /\ task_results # loaded
    /\ done_queue # <<>>
    /\ \E i \in 1..Len(flows) : flows[i].st = "inflight"
    /\ \E i \in 1..Len(flows) : flows[i].st = "merged"

-----------------------------------------------------------------------------
(* Checkpoint loading. *)

ItemsWithId == {x \in Range(items) : x # NoId}

(* C27: a run that starts when the checkpoint file is missing or does not  *)
(* parse gets the empty mapping from load_checkpoint, is not stopped, and  *)
(* has every item that has an ID to resolve.                               *)
C27_UnusableCheckpointStartsFresh ==
    [][(runNo' = runNo + 1 /\ checkpoint.state \in {"absent", "torn"})
        => /\ load_checkpoint(checkpoint) = <<>>
           /\ loaded' = <<>> /\ task_results' = <<>>
           /\ pc' = IF ItemsWithId = {} THEN "done" ELSE "running"
           /\ mode = "direct"
                => /\ {flows'[j].id : j \in 1..Len(flows')} = ItemsWithId
                   /\ \A j \in 1..Len(flows') : flows'[j].st = "waiting"
           /\ mode = "batch" => Range(items_for_batch_prep') = ItemsWithId]_vars

(* A run has just started over the file a killed save left behind. *)
C27_Witness ==
    /\ runNo >= 2 /\ pc = "running"
    /\ checkpoint = Torn /\ crash = NoCrash
    /\ prevRun.completed = FALSE
    /\ task_results = <<>> /\ requested = {}
    /\ ItemsWithId # {}

-----------------------------------------------------------------------------
(* Keys of the result mapping. *)

(* The keys the program holds or has written. *)
WrittenKeys ==
    Keys(task_results) \cup Keys(checkpoint.data) \cup Keys(output.data)

(* key is str(n) for an integer n >= 0: digits only, at least one, and no  *)
(* leading zero unless it is "0".                                          *)
IsDecimalString(key) ==
    /\ Len(key) >= 1
    /\ \A j \in 1..Len(key) : key[j] \in 0..9
    /\ key = str(int(key))

(* C28: every key of the result mapping, of the checkpoint file and of the *)
(* output artifact is the decimal string of the non-negative integer ID of *)
(* an item, so int(key) of the final sort is defined for it.               *)
C28_KeysAreDecimalIds ==
    \A key \in WrittenKeys :
        IsDecimalString(key) /\ int(key) \in ItemsWithId

(* A direct run over a list that holds an image without an ID has ended    *)
(* and has written a two-digit key.                                        *)
C28_Witness ==
    /\ mode = "direct" /\ pc = "done"
    /\ NoId \in Range(items)
    /\ str(10) \in Keys(output.data)
    /\ Keys(checkpoint.data) = Keys(output.data)

-----------------------------------------------------------------------------
(* Correlation IDs. *)

(* The chunk at hand has its batch file and its ID map. *)
ChunkPrepared ==
    mode = "batch" /\ pc = "running" /\ chunk.at \in {"create", "poll", "handle"}

(* C29: in the ID map of a chunk the correlation IDs of the chunk's items  *)
(* are pairwise distinct, and the entry of an item's correlation ID holds  *)
(* the integer ID of that very item.                                       *)
C29_CorrelationIdsDistinctAndMapped ==
    ChunkPrepared
    => /\ \A j, k \in 1..Len(batch_items) :
              j # k => custom_id(batch_items[j]) # custom_id(batch_items[k])
       /\ \A j \in 1..Len(batch_items) :
              /\ custom_id(batch_items[j]) \in DOMAIN chunk.current_id_map
              /\ chunk.current_id_map[custom_id(batch_items[j])] = batch_items[j]
       /\ Cardinality(DOMAIN chunk.current_id_map) = Len(batch_items)

(* A chunk of batch_size items has been prepared and submitted. *)
C29_Witness ==
    /\ ChunkPrepared /\ chunk.at = "poll"
    /\ Len(batch_items) = batch_size
    /\ Cardinality(DOMAIN chunk.current_id_map) = batch_size

-----------------------------------------------------------------------------
(* The loop over chunks. *)

(* The items at positions i + 1 .. i + batch_size of the unresolved list. *)
ChunkAt(i) ==
    {items_for_batch_prep[j] :
        j \in (i + 1)..Min(i + batch_size, Len(items_for_batch_prep))}

(* C30: the unresolved items of a batch run hold no item twice and are cut *)
(* at the multiples of batch_size; the chunk at hand is one of these       *)
(* pieces, not empty and of at most batch_size items; the loop goes from a *)
(* piece to the next one only and ends after the last; and a step submits  *)
(* only items of the piece at hand.                                        *)
C30_ChunksPartitionUnresolved ==
    /\ [](mode = "batch" /\ pc = "running"
            => /\ \A j, k \in 1..Len(items_for_batch_prep) :
                      j # k => items_for_batch_prep[j] # items_for_batch_prep[k]
               /\ chunk.i % batch_size = 0
               /\ chunk.i < Len(items_for_batch_prep)
               /\ Range(batch_items) = ChunkAt(chunk.i)
               /\ Len(batch_items) \in 1..batch_size
               /\ chunk.at \in {"poll", "handle"}
                    => Range(jobs[Len(jobs)].requests) \subseteq ChunkAt(chunk.i))
    /\ [][(mode = "batch" /\ pc = "running" /\ pc' # "crashed")
            => /\ items_for_batch_prep' = items_for_batch_prep
               /\ chunk'.i \in {chunk.i, chunk.i + batch_size}
               /\ pc' = "done"
                    <=> chunk'.i >= Len(items_for_batch_prep)
               /\ requested' \ requested \subseteq ChunkAt(chunk.i)
               /\ requested' # requested => chunk'.i = chunk.i]_vars

(* The second chunk of a run has been submitted after the first. *)
C30_Witness ==
    /\ mode = "batch" /\ pc = "running"
    /\ Len(items_for_batch_prep) > batch_size
    /\ chunk.i = batch_size /\ chunk.at = "poll"
    /\ requested \cap ChunkAt(0) # {}
    /\ requested \cap ChunkAt(batch_size) # {}

-----------------------------------------------------------------------------
(* Growth of the result mapping. *)

(* C31: a step of a run keeps every key of the result mapping and the      *)
(* value under it: the mapping only grows.                                 *)
C31_ResultsOnlyGrow ==
    [][(pc = "running" /\ pc' \in {"running", "done"})
        => \A key \in Keys(task_results) :
              /\ HasKey(task_results', key)
              /\ Get(task_results', key) = Get(task_results, key)]_vars

-----------------------------------------------------------------------------
(* Completion of a direct run. *)

(* C32: when a run of the direct backend has finished, every item that has *)
(* an ID has a key in the checkpoint file, with a result or an error       *)
(* string under it.                                                        *)
C32_DirectRunResolvesAll ==
    (mode = "direct" /\ pc = "done")
    => \A x \in ItemsWithId :
          /\ HasKey(load_checkpoint(checkpoint), str(x))
          /\ \/ Get(load_checkpoint(checkpoint), str(x)) = Text
             \/ IsError(Get(load_checkpoint(checkpoint), str(x)))

(* A direct run over several items has finished with a result for one item *)
(* and an error string for another.                                        *)
C32_Witness ==
    /\ mode = "direct" /\ pc = "done"
    /\ Cardinality(ItemsWithId) >= 2
    /\ \E x, y \in ItemsWithId :
          /\ Get(load_checkpoint(checkpoint), str(x)) = Text
          /\ IsError(Get(load_checkpoint(checkpoint), str(y)))

-----------------------------------------------------------------------------
(* The two backends over one data directory. *)

(* The IDs of the items a backend hands to the task at hand. *)
SelectedIds(backend, lists) ==
    {get_image_id_from_path(it.image_path) :
        it \in Range(items_to_process_info_of(backend, lists))} \ {NoId}

(* C33: once the data directory is loaded, the item IDs the direct backend *)
(* selects for the task are the item IDs the batch backend selects for it. *)
C33_BackendsSelectSameIds ==
    data.loaded
    => SelectedIds("direct", load_data_items(listing))
          = SelectedIds("batch", load_images_and_texts(listing))

-----------------------------------------------------------------------------
(* Checkpoint and artifact at the end of a run. *)

(* C34: when a run has ended, the mapping in the checkpoint file has the   *)
(* keys of the output artifact and the same value under each of them.      *)
C34_CheckpointEqualsArtifact ==
    pc = "done"
    => /\ output.state = "complete"
       /\ Entries(load_checkpoint(checkpoint)) = Entries(output.data)
       /\ Len(load_checkpoint(checkpoint)) = Len(output.data)

(* A run has ended and has written an artifact that holds more than the    *)
(* checkpoint it loaded.                                                   *)
C34_Witness ==
    /\ pc = "done"
    /\ Len(output.data) >= 2
    /\ Len(loaded) < Len(output.data)
    /\ checkpoint.state = "complete"

-----------------------------------------------------------------------------
(* The slots of the semaphore. *)

(* C35: in a run of the direct backend the free slots are those no         *)
(* coroutine holds (a coroutine that has returned, with a result or with   *)
(* an error string, holds none); when the run has finished every slot is   *)
(* free; and, the process not being interrupted, a coroutine that waits    *)
(* for a slot gets one.                                                    *)
C35_SlotsReleased ==
    /\ [](mode = "direct" /\ pc \in {"running", "done"}
            => semaphore = concurrency - Cardinality(Holding))
    /\ [](mode = "direct" /\ pc = "done" => semaphore = concurrency)
    /\ \A i \in 1..MaxItems :
          (mode = "direct" /\ pc = "running" /\ i \in Waiting)
              ~> (i \in 1..Len(flows) /\ flows[i].st # "waiting")

(* A direct run has finished in which coroutines left the block on an      *)
(* error path and on the path of an answer.                                *)
C35_Witness ==
    /\ mode = "direct" /\ pc = "done"
    /\ semaphore = concurrency
    /\ Len(flows) > concurrency
    /\ \E j, k \in 1..Len(task_results) :
          /\ task_results[j].v \in {ErrEncode, ErrAfterAttempts}
          /\ task_results[k].v = Text

-----------------------------------------------------------------------------
(* The files of the other pairs. *)

OtherPairs == Pairs \ {<<language, task>>}

PairFiles(pair) ==
    {get_checkpoint_filename(pair[1], pair[2]), output_filename(pair[1], pair[2])}

(* C36: different pairs have different checkpoint paths and different      *)
(* output paths; the run of a pair starts from the checkpoint file of the  *)
(* pair; and a step taken while main() is at a pair leaves the checkpoint  *)
(* file and the output artifact of every other pair as they are.           *)
C36_OtherPairsUntouched ==
    /\ [](\A p, q \in Pairs : p # q => PairFiles(p) \cap PairFiles(q) = {})
    /\ [][/\ \A pair \in OtherPairs :
               \A path \in PairFiles(pair) : disk'[path] = disk[path]
          /\ (pc = "idle" /\ pc' = "running")
               => task_results'
                     = load_checkpoint(disk[get_checkpoint_filename(language, task)])
         ]_vars

(* main() has gone through every pair, and the checkpoint files of two     *)
(* pairs of the same task hold different mappings.                         *)
C36_Witness ==
    /\ pc = "done"
    /\ \A pair \in Pairs :
          disk[output_filename(pair[1], pair[2])].state = "complete"
    /\ \E p, q \in Pairs :
          /\ p[2] = q[2] /\ p[1] # q[1]
          /\ disk[get_checkpoint_filename(p[1], p[2])].state = "complete"
          /\ disk[get_checkpoint_filename(q[1], q[2])].state = "complete"
          /\ disk[get_checkpoint_filename(p[1], p[2])]
                # disk[get_checkpoint_filename(q[1], q[2])]
====
